---- MODULE Spec2Model ----
(***************************************************************************)
(* Model of sync_okta_crdb.py: one batch run that reconciles CockroachDB   *)
(* role membership with Okta group membership, one mapping at a time.      *)
(*                                                                         *)
(* Strings the code inspects character by character (emails, principal    *)
(* names, the Link header) are sequences of tokens, so that lower(),       *)
(* sorted(), re.match/re.sub and the Link regex are computed, not assumed. *)
(***************************************************************************)
EXTENDS Integers, Sequences, FiniteSets, TLC

\* ------------------------------------------------------------------ bounds
\* Longest configured mapping list.
MaxMappings == 2
\* Longest member listing (pages) the provider serves in the paging inputs.
MaxPages == 2

\* ----------------------------------------------------------------- strings
Range(s) == {s[i] : i \in DOMAIN s}

Min(a, b) == IF a < b THEN a ELSE b

\* str.lower() on one character (the upper-case letters the inputs use).
LowerChar(c) == CASE c = "A" -> "a" [] c = "B" -> "b" [] OTHER -> c

\* str.lower()
Lower(s) == [i \in 1..Len(s) |-> LowerChar(s[i])]

\* Code point of a character: the order sorted() uses on str.
Code(c) ==
    CASE c = "@" -> 64 [] c = "A" -> 65 [] c = "B" -> 66
      [] c = "a" -> 97 [] c = "b" -> 98 [] c = "c" -> 99
      [] c = "x" -> 120 [] c = "z" -> 122

\* s < t for Python str: lexicographic by code point, a proper prefix first.
StrLess(s, t) ==
    \E k \in 0..Min(Len(s), Len(t)) :
        /\ \A i \in 1..k : s[i] = t[i]
        /\ \/ k = Len(s) /\ k < Len(t)
           \/ k < Len(s) /\ k < Len(t) /\ Code(s[k + 1]) < Code(t[k + 1])

\* sorted(S) of a set of str: ascending list.
RECURSIVE Sorted(_)
Sorted(S) ==
    IF S = {} THEN <<>>
    ELSE LET m == CHOOSE x \in S : \A y \in S : x = y \/ StrLess(x, y)
         IN <<m>> \o Sorted(S \ {m})

\* The email-like strings of the inputs.
A_c  == <<"a", "@", "c">>
UA_c == <<"A", "@", "c">>
B_c  == <<"b", "@", "c">>
A_x  == <<"a", "@", "x">>
C_c  == <<"c", "@", "c">>
Z_c  == <<"z", "@", "c">>
\* A member record without profile.email.
NoEmail == <<>>

\* ------------------------------------------------------- the Link header
RelNext == "rel=\"next\""
RelSelf == "rel=\"self\""
UrlBase == "https://okta/api/v1/groups/g/users?limit=200&"

\* The cursor the provider gives page k.
CursorTok == <<"c1", "c2", "c3", "c4">>

\* '<url?after=CURSOR>; rel="next"': the provider's documented form.
LinkNext(k) == <<"<", UrlBase, "after=", CursorTok[k], ">", ";", " ", RelNext>>
\* '<url>; rel="self", <url?after=CURSOR>; rel="next"'
LinkSelfNext(k) ==
    <<"<", UrlBase, ">", ";", " ", RelSelf, ",", " ">> \o LinkNext(k)
\* '<url?after=CURSOR>;\rel="next"': a backslash where the space would be.
LinkBackslash(k) == <<"<", UrlBase, "after=", CursorTok[k], ">", ";", "\\", RelNext>>
\* '<url>;\ssrel="next"': a next link whose url has no after=.
LinkNoAfter == <<"<", UrlBase, ">", ";", "\\", "s", "s", RelNext>>
\* '<url>; rel="self"'
LinkSelf == <<"<", UrlBase, ">", ";", " ", RelSelf>>
\* No Link header: headers.get("Link", "").
LinkNone == <<>>

\* Index just past the run of "s" characters starting at k (regex  s* ).
RECURSIVE SkipS(_, _)
SkipS(h, k) == IF k <= Len(h) /\ h[k] = "s" THEN SkipS(h, k + 1) ELSE k

\* The group-1 text of a match of  <([^>]+)>;\\s*rel="next"  starting at i,
\* or <<>> when the pattern does not match there.  In the raw string the
\* doubled backslash is a literal backslash followed by  s* .
MatchNextAt(h, i) ==
    IF i > Len(h) \/ h[i] # "<" THEN <<>>
    ELSE LET closes == {j \in (i + 1)..Len(h) : h[j] = ">"}
         IN IF closes = {} THEN <<>>
            ELSE LET j == CHOOSE c \in closes : \A d \in closes : c <= d
                     k == SkipS(h, j + 3)
                 IN IF /\ j > i + 1
                       /\ j + 2 <= Len(h)
                       /\ h[j + 1] = ";"
                       /\ h[j + 2] = "\\"
                       /\ k <= Len(h)
                       /\ h[k] = RelNext
                    THEN SubSeq(h, i + 1, j - 1)
                    ELSE <<>>

\* _re.search(r'<([^>]+)>;\\s*rel="next"', link): group 1 of the leftmost
\* match, <<>> when there is none.
SearchNext(h) ==
    LET starts == {i \in 1..Len(h) : MatchNextAt(h, i) # <<>>}
    IN IF starts = {} THEN <<>>
       ELSE MatchNextAt(h, CHOOSE i \in starts : \A j \in starts : i <= j)

\* url.split("after=")[-1]: what follows the last "after=".
AfterOf(url) ==
    LET at == {i \in 1..Len(url) : url[i] = "after="}
        last == CHOOSE i \in at : \A j \in at : j <= i
    IN SubSeq(url, last + 1, Len(url))

\* The cursor the loop continues with, <<>> when the loop breaks:
\* m and "after=" in m.group(1).
NextAfter(link) ==
    LET url == SearchNext(link)
    IN IF url # <<>> /\ "after=" \in Range(url) THEN AfterOf(url) ELSE <<>>

\* The emails one page adds: each record's profile.email, lower-cased,
\* records without one skipped.
RECURSIVE PageEmails(_)
PageEmails(items) ==
    IF items = <<>> THEN <<>>
    ELSE (IF Head(items) # NoEmail THEN <<Lower(Head(items))>> ELSE <<>>)
         \o PageEmails(Tail(items))


\* ----------------------------------------------------- identity mapping
\* The rules the inputs draw from.  All patterns have one group.
PatAll     == "^(.*)$"
PatDomain  == "^(.+)@c$"
PatLocal   == "^([^@]+)@.*$"
ReplGroup1 == "\\1"
ReplGroup2 == "\\2"

\* re.match(pattern, s): [ok, g1 (group 1), end (end of the match)].
ReMatch(pattern, s) ==
    CASE pattern = PatAll ->
            [ok |-> TRUE, g1 |-> s, end |-> Len(s)]
      [] pattern = PatDomain ->
            IF Len(s) >= 3 /\ s[Len(s) - 1] = "@" /\ s[Len(s)] = "c"
            THEN [ok |-> TRUE, g1 |-> SubSeq(s, 1, Len(s) - 2), end |-> Len(s)]
            ELSE [ok |-> FALSE, g1 |-> <<>>, end |-> 0]
      [] pattern = PatLocal ->
            LET ats == {i \in 1..Len(s) : s[i] = "@"}
                p == CHOOSE i \in ats : \A j \in ats : i <= j
            IN IF ats # {} /\ p > 1
               THEN [ok |-> TRUE, g1 |-> SubSeq(s, 1, p - 1), end |-> Len(s)]
               ELSE [ok |-> FALSE, g1 |-> <<>>, end |-> 0]

\* derive_sql_username: [kind |-> "ok", user |-> name], or the exception
\* raised.  A template naming a group the pattern lacks makes re.sub raise
\* re.error; re.sub replaces the match and keeps the text after it.
derive_sql_username(identity, pattern, replacement) ==
    LET m == ReMatch(pattern, identity)
    IN IF ~m.ok THEN [kind |-> "ValueError", user |-> <<>>]
       ELSE IF replacement # ReplGroup1 THEN [kind |-> "re.error", user |-> <<>>]
       ELSE [kind |-> "ok",
             user |-> m.g1 \o SubSeq(identity, m.end + 1, Len(identity))]

\* The body of the try: the subscripts idmap["pattern"] and
\* idmap["replacement"] are evaluated first and raise KeyError when absent.
TryDerive(email, rule) ==
    IF ~({"pattern", "replacement"} \subseteq DOMAIN rule)
    THEN [kind |-> "KeyError", user |-> <<>>]
    ELSE derive_sql_username(email, rule.pattern, rule.replacement)

\* Variant: the first email that fails ends the loop (break for continue).
RECURSIVE MapLoopBreak(_, _)
MapLoopBreak(list, rule) ==
    IF list = <<>> THEN [desired |-> {}, skipped |-> <<>>]
    ELSE LET r == TryDerive(Head(list), rule)
             rest == MapLoopBreak(Tail(list), rule)
         IN IF r.kind = "ok"
            THEN [desired |-> {r.user} \cup rest.desired, skipped |-> rest.skipped]
            ELSE [desired |-> {},
                  skipped |-> <<[level |-> "warn", what |-> "skipping",
                                 arg |-> Head(list), err |-> r.kind]>>]

\* The for loop over okta_emails: "except Exception" catches whatever the
\* try raised, logs the email as skipped and continues with the next one.
\* [desired: the set built, skipped: the warnings logged, in order].
RECURSIVE MapLoop(_, _)
MapLoop(list, rule) ==
    IF list = <<>> THEN [desired |-> {}, skipped |-> <<>>]
    ELSE LET r == TryDerive(Head(list), rule)
             rest == MapLoop(Tail(list), rule)
         IN IF r.kind = "ok"
            THEN [desired |-> {r.user} \cup rest.desired, skipped |-> rest.skipped]
            ELSE [desired |-> rest.desired,
                  skipped |-> <<[level |-> "warn", what |-> "skipping",
                                 arg |-> Head(list), err |-> r.kind]>>
                              \o rest.skipped]

\* ---------------------------------------------------------------- inputs
RoleNames == {"admin", "dev"}

Eng    == <<"eng">>
EngOps == <<"eng", "-ops">>
Ghost  == <<"ghost">>

\* cfg["mappings"] entries.
MappingPool ==
    { [okta_group |-> Eng,    crdb_role |-> "admin"],
      [okta_group |-> EngOps, crdb_role |-> "admin"],
      [okta_group |-> Ghost,  crdb_role |-> "dev"] }

\* cfg["identity_map"] values: well-formed rules, a template naming a
\* missing group, and a rule without "replacement".
IdRules ==
    { [pattern |-> PatAll,    replacement |-> ReplGroup1],
      [pattern |-> PatDomain, replacement |-> ReplGroup1],
      [pattern |-> PatLocal,  replacement |-> ReplGroup1],
      [pattern |-> PatDomain, replacement |-> ReplGroup2],
      [pattern |-> PatDomain] }

\* The default of cfg.get("identity_map", ...).
DefaultIdMap == [pattern |-> PatAll, replacement |-> ReplGroup1]

\* The identity_map section of the configuration: <<>> when the section
\* is absent, <<rule>> when it is there (with or without both fields).
IdMapConfigs ==
    {<<>>} \cup {<<r>> : r \in (IdRules \ {DefaultIdMap}) \cup {[replacement |-> ReplGroup1]}}

\* A string that may be absent (None): the environment variable and the
\* config's okta.api_token.
Unset == [set |-> FALSE, val |-> <<>>]
Val(str) == [set |-> TRUE, val |-> str]

TokEnv == <<"0", "0", "e">>
TokCfg == <<"0", "0", "c">>
Placeholder == <<"$", "{", "T", "}">>

EnvTokens == {Unset, Val(<<>>), Val(TokEnv), Val(Placeholder)}
CfgTokens == {Unset, Val(<<>>), Val(TokCfg), Val(Placeholder)}

\* cfg["okta"].get("page_size", 200) values.
PageSizes == {0, 200}

\* Principals that may hold a role before the run.
MemberPool == {<<"a">>, <<"z">>}

\* The provider's groups, in the order it lists them; the search index
\* lags behind for g2.
OktaGroups ==
    << [id |-> "g0", name |-> <<"eng", "-ops", "-x">>, indexed |-> TRUE],
       [id |-> "g1", name |-> Eng,                   indexed |-> TRUE],
       [id |-> "g2", name |-> EngOps,                indexed |-> FALSE],
       [id |-> "g3", name |-> <<"ghost", "-2">>,     indexed |-> TRUE] >>

GroupIds == {OktaGroups[i].id : i \in DOMAIN OktaGroups}

\* The member listing of g1 and g2 in the configuration inputs.
ListingEng ==
    << [items |-> <<C_c, UA_c, B_c, A_x>>, link |-> LinkNext(2)],
       [items |-> <<Z_c>>,            link |-> LinkNone] >>
ListingEngOps ==
    << [items |-> <<A_c, NoEmail, A_c>>, link |-> LinkSelf] >>

\* The records of page k in the paging inputs.
PageItems(k) ==
    CASE k = 1 -> <<UA_c, NoEmail>>
      [] k = 2 -> <<B_c>>
      [] k = 3 -> <<A_x, A_c>>
      [] OTHER -> <<Z_c>>

\* The Link headers page k of n may carry.
LinkForms(k, n) ==
    IF k < n THEN {LinkNext(k + 1), LinkSelfNext(k + 1), LinkBackslash(k + 1)}
    ELSE {LinkNone, LinkSelf, LinkNoAfter}

\* Listings of n pages.
ListingsOf(n) ==
    LET all == UNION {LinkForms(k, n) : k \in 1..n}
    IN { [k \in 1..n |-> [items |-> PageItems(k), link |-> f[k]]] :
           f \in {g \in [1..n -> all] : \A k \in 1..n : g[k] \in LinkForms(k, n)} }

Listings == UNION {ListingsOf(n) : n \in 1..MaxPages}

\* HTTP status codes the provider answers with.
Statuses == {200, 300, 500}

\* ----------------------------------------------------------------- state
VARIABLES
    mappings, idmap, ensure_users, ensure_roles, enforce_removals, dry_run,
    okta,
    env_token, cfg_token, cfg_identity_map, cfg_page_size, token, page_size,
    roles, users, members,
    pc, cur, results, printed,
    gid, after, emails, okta_emails, desired_members,
    current_members, to_add, to_remove, pos,
    exc, excAt,
    calls, logs,
    roles0, users0, members0, call_members

inputVars == <<mappings, ensure_users, ensure_roles, enforce_removals, dry_run, okta,
               env_token, cfg_token, cfg_identity_map, cfg_page_size>>
cfgVars == <<inputVars, idmap, token, page_size>>
dbVars == <<roles, users, members>>
localVars == <<gid, after, emails, okta_emails, desired_members,
               current_members, to_add, to_remove, pos>>
ghostVars == <<roles0, users0, members0>>
vars == <<cfgVars, dbVars, pc, cur, results, printed, localVars,
          exc, excAt, calls, logs, ghostVars, call_members>>

\* The mapping the for loop of main is at.
Mapping == mappings[cur]

\* Sequences over S of length 1..n.
SeqsUpTo(S, n) == UNION {[1..m -> S] : m \in 1..n}

InitRest ==
    /\ roles = {r \in RoleNames : members[r] # {}}
    /\ users = UNION {members[r] : r \in RoleNames}
    /\ idmap = <<>> /\ token = <<>> /\ page_size = 0
    /\ pc = "preflight" /\ cur = 1 /\ results = <<>> /\ printed = 0
    /\ gid = "none" /\ after = <<>> /\ emails = <<>> /\ okta_emails = <<>>
    /\ desired_members = {} /\ current_members = {}
    /\ to_add = <<>> /\ to_remove = <<>> /\ pos = 1
    /\ exc = "none" /\ excAt = 0
    /\ calls = <<>> /\ logs = <<>>
    /\ roles0 = roles /\ users0 = users /\ members0 = members
    /\ call_members = <<>>

\* Configuration inputs: every mapping list, rule, option setting and
\* initial membership, against a fixed provider.
InitConfig ==
    /\ mappings \in SeqsUpTo(MappingPool, MaxMappings)
    /\ cfg_identity_map \in IdMapConfigs
    /\ env_token = Val(TokEnv) /\ cfg_token = Unset /\ cfg_page_size = 200
    /\ ensure_users \in BOOLEAN /\ ensure_roles \in BOOLEAN
    /\ enforce_removals \in BOOLEAN /\ dry_run \in BOOLEAN
    /\ okta = [groups |-> OktaGroups,
               listing |-> [g \in GroupIds |->
                              IF g = "g1" THEN ListingEng ELSE ListingEngOps]]
    /\ members \in {m \in [RoleNames -> SUBSET MemberPool] : m["dev"] = {<<"z">>}}
    /\ InitRest

\* Paging inputs: every member listing of up to MaxPages pages for g1,
\* against a fixed configuration.
InitPaging ==
    /\ mappings = <<[okta_group |-> Eng, crdb_role |-> "admin"]>>
    /\ cfg_identity_map = <<>>
    /\ env_token = Unset /\ cfg_token = Val(TokCfg) /\ cfg_page_size \in PageSizes
    /\ ensure_users = TRUE /\ ensure_roles = TRUE
    /\ enforce_removals = TRUE /\ dry_run \in BOOLEAN
    /\ \E l \in Listings :
          okta = [groups |-> OktaGroups,
                  listing |-> [g \in GroupIds |->
                                 IF g = "g1" THEN l ELSE ListingEngOps]]
    /\ members = [r \in RoleNames |-> IF r = "admin" THEN {<<"z">>} ELSE {}]
    /\ InitRest

\* Credential inputs: every pair of environment and config token, against
\* a fixed configuration.
InitCredentials ==
    /\ mappings = <<[okta_group |-> EngOps, crdb_role |-> "admin"]>>
    /\ cfg_identity_map = <<[pattern |-> PatDomain, replacement |-> ReplGroup1]>>
    /\ env_token \in EnvTokens /\ cfg_token \in CfgTokens /\ cfg_page_size = 200
    /\ ensure_users = TRUE /\ ensure_roles = TRUE
    /\ enforce_removals = FALSE /\ dry_run = FALSE
    /\ okta = [groups |-> OktaGroups,
               listing |-> [g \in GroupIds |->
                              IF g = "g1" THEN ListingEng ELSE ListingEngOps]]
    /\ members = [r \in RoleNames |-> IF r = "admin" THEN {<<"z">>} ELSE {}]
    /\ InitRest

Init == InitConfig \/ InitPaging \/ InitCredentials


\* ------------------------------------------------------------ exceptions
\* Variant: the error of one mapping is swallowed and the loop goes on.
RaiseAndContinue(e) == pc' = "main" /\ exc' = e /\ excAt' = cur /\ cur' = cur + 1

\* An exception nothing catches: it leaves sync_one_mapping and the for
\* loop of main, and the process ends with the traceback.
Raise(e) == pc' = "failed" /\ exc' = e /\ excAt' = cur /\ cur' = cur

NoRaise == exc' = exc /\ excAt' = excAt /\ cur' = cur

\* One external call, as issued: the mapping it belongs to, the operation
\* and its arguments.
Call(op, role, who) == [m |-> cur, op |-> op, role |-> role, who |-> who]

\* ----------------------------------------------------------- the provider
IsPrefix(p, s) == Len(p) <= Len(s) /\ SubSeq(s, 1, Len(p)) = p

\* The page of groups a search returns: search=profile.name sw "name"
\* reads the search index, q=name reads the directory.
SearchPage(kind, name) ==
    LET Matches(g) == IsPrefix(name, g.name) /\ (kind = "q" \/ g.indexed)
        all == SelectSeq(okta.groups, Matches)
    IN SubSeq(all, 1, Min(Len(all), page_size))

\* Variant: the first group of the page is taken, exact name or not.
FirstOfPage(page, name) == IF page = <<>> THEN "none" ELSE page[1].id

\* "for g in r.json(): if g...name == name: return g["id"]": the id of the
\* first group of the page with exactly this name, "none" without one.
FirstExact(page, name) ==
    LET hits == {i \in DOMAIN page : page[i].name = name}
    IN IF hits = {} THEN "none"
       ELSE page[CHOOSE i \in hits : \A j \in hits : i <= j].id

\* The page of a listing a request with this after= gets; 0 when the
\* cursor names none.
PageIndex(pages, cursor) ==
    IF cursor = <<>> THEN 1
    ELSE LET hit == {i \in 1..Len(pages) : <<CursorTok[i]>> = cursor}
         IN IF hit = {} THEN 0 ELSE CHOOSE i \in hit : TRUE

\* ----------------------------------------------------------- the database
\* CREATE ROLE IF NOT EXISTS
ensure_role_exists(role) ==
    roles' = roles \cup {role} /\ UNCHANGED <<users, members>>

\* CREATE USER IF NOT EXISTS
ensure_user_exists(user) ==
    users' = users \cup {user} /\ UNCHANGED <<roles, members>>

\* Variant: the membership query returns no rows.
current_members_NoRows(role) == {}

\* Variant: under dry-run the membership is not read.
current_members_DryBlind(role) == IF dry_run THEN {} ELSE members[role]

\* SELECT member FROM crdb_internal.role_members WHERE role = ...
current_members_of_role(role) == members[role]

\* Variant: the grant is accepted and adds nobody.
grant_NoEffect(role, member) == UNCHANGED <<roles, users, members>>

\* GRANT role TO member
grant_role_to_member(role, member) ==
    members' = [members EXCEPT ![role] = @ \cup {member}]
    /\ UNCHANGED <<roles, users>>

\* Variant: the revoke is accepted and removes nobody.
revoke_NoEffect(role, member) == UNCHANGED <<roles, users, members>>

\* REVOKE role FROM member
revoke_role_from_member(role, member) ==
    members' = [members EXCEPT ![role] = @ \ {member}]
    /\ UNCHANGED <<roles, users>>

\* Variant: a rejected statement rolls the run's earlier statements back.
StoreFailRollback ==
    roles' = roles0 /\ users' = users0 /\ members' = members0 /\ Raise("StoreError")

\* A statement the database rejects: the connection is autocommit, every
\* earlier statement is committed, this one changes nothing, and the error
\* leaves the with block.
StoreFail == UNCHANGED dbVars /\ Raise("StoreError")

\* --------------------------------------------------------------- the diff
\* Variant: everything desired is granted, in descending order.
RECURSIVE Reversed(_)
Reversed(s) == IF s = <<>> THEN <<>> ELSE Append(Reversed(Tail(s)), Head(s))

ToAddAllDescending(desired, current) == Reversed(Sorted(desired))

\* to_add = sorted(desired_members - current_members)
ToAdd(desired, current) == Sorted(desired \ current)

\* Variant: removals are computed whatever enforce_removals says.
ToRemoveAlways(desired, current, enforce) == Sorted(current \ desired)

\* to_remove = sorted(current_members - desired_members) if enforce_removals else []
ToRemove(desired, current, enforce) ==
    IF enforce THEN Sorted(current \ desired) ELSE <<>>

\* Variant: the call is made under dry-run too.
AppliesAlways == TRUE

\* "if dry_run: log(...) else: crdb...." : whether the call is made.
Applies == ~dry_run

DryRunNotice(what, arg) ==
    [level |-> "info", what |-> what, arg |-> arg, err |-> "none"]

\* Variant: the users are not provisioned.
AfterEnsureRoleSkipUsers == "observe"

\* Variant: the identities that derived are counted, not the principals.
DesiredCountOfIdentities ==
    Cardinality({e \in Range(okta_emails) : TryDerive(e, idmap).kind = "ok"})

\* "desired_count": len(desired_members)
DesiredCount == Cardinality(desired_members)

\* Variant: the membership is counted after the grants and revokes.
CurrentCountAfterApply == Cardinality(members[Mapping.crdb_role])

\* "current_count": len(current_members)
CurrentCount == Cardinality(current_members)

\* Where sync_one_mapping goes after the ensure steps and after the diff.
AfterEnsureRole ==
    IF ensure_users /\ desired_members # {} THEN "ensure_users" ELSE "observe"

AfterDiff(adds, removes) ==
    IF adds # <<>> THEN "grant" ELSE IF removes # <<>> THEN "revoke" ELSE "return"

\* ------------------------------------------------------------ pre-flight
Max(a, b) == IF a > b THEN a ELSE b

\* OktaClient.__init__: min(max(page_size, 1), 200)
Clamp(n) == Min(Max(n, 1), 200)

\* Truth value of an optional str: None and "" are false.
Truthy(t) == t.set /\ t.val # <<>>

\* Variant: the config's token wins over the environment's.
ResolveTokenConfigFirst(env, cfg) == IF Truthy(cfg) THEN cfg ELSE env

\* os.environ.get("OKTA_API_TOKEN") or cfg["okta"].get("api_token")
ResolveToken(env, cfg) == IF Truthy(env) THEN env ELSE cfg

\* not okta_token or okta_token.startswith("${")
TokenRejected(t) == ~Truthy(t) \/ IsPrefix(<<"$", "{">>, t.val)

\* cfg.get("identity_map", {"pattern": "^(.*)$", "replacement": "\\1"}): the
\* default stands in for the whole section, not for a field of it.
ResolveIdMap(section) == IF section = <<>> THEN DefaultIdMap ELSE section[1]

\* Whether the for loop of main has run out of mappings.
LoopDoneEarly == cur > 1

LoopDone == cur > Len(mappings)

\* --------------------------------------------------------------- actions
\* main up to the loop: resolve the token (die without one), build the
\* clients, read the identity rule.
Preflight ==
    /\ pc = "preflight"
    /\ LET t == ResolveToken(env_token, cfg_token)
       IN IF TokenRejected(t)
          THEN pc' = "died" /\ UNCHANGED <<token, page_size, idmap>>
          ELSE /\ token' = t.val
               /\ page_size' = Clamp(cfg_page_size)
               /\ idmap' = ResolveIdMap(cfg_identity_map)
               /\ pc' = "main"
    /\ UNCHANGED <<inputVars, dbVars, cur, results, printed, localVars,
                   exc, excAt, calls, logs, ghostVars, call_members>>

\* main, for m in cfg["mappings"]: the next call of sync_one_mapping.
StartMapping ==
    /\ pc = "main" /\ ~LoopDone
    /\ pc' = "find_sw"
    /\ call_members' = Append(call_members, members)
    /\ UNCHANGED <<cfgVars, dbVars, cur, results, printed, localVars,
                   exc, excAt, calls, logs, ghostVars>>

\* find_group_id_by_name, first request: the starts-with search.
FindGroupSw ==
    /\ pc = "find_sw"
    /\ calls' = Append(calls, Call("GET groups search", "", Mapping.okta_group))
    /\ \E status \in Statuses :
         IF status >= 300
         THEN Raise("RuntimeError") /\ gid' = gid
         ELSE LET found == FirstExact(SearchPage("sw", Mapping.okta_group),
                                      Mapping.okta_group)
              IN /\ NoRaise
                 /\ IF found # "none"
                    THEN gid' = found /\ pc' = "list"
                    ELSE gid' = gid /\ pc' = "find_q"
    /\ UNCHANGED <<cfgVars, dbVars, results, printed, after, emails, okta_emails,
                   desired_members, current_members, to_add, to_remove, pos,
                   logs, ghostVars, call_members>>

\* find_group_id_by_name, second request: the free-text query.
FindGroupQ ==
    /\ pc = "find_q"
    /\ calls' = Append(calls, Call("GET groups q", "", Mapping.okta_group))
    /\ \E status \in Statuses :
         IF status >= 300
         THEN Raise("RuntimeError") /\ gid' = gid
         ELSE LET found == FirstExact(SearchPage("q", Mapping.okta_group),
                                      Mapping.okta_group)
              IN IF found # "none"
                 THEN NoRaise /\ gid' = found /\ pc' = "list"
                 ELSE Raise("KeyError") /\ gid' = gid
    /\ UNCHANGED <<cfgVars, dbVars, results, printed, after, emails, okta_emails,
                   desired_members, current_members, to_add, to_remove, pos,
                   logs, ghostVars, call_members>>

\* list_group_user_emails, one turn of the while loop: request a page,
\* collect its emails, read the Link header, continue or return.
ListPage ==
    /\ pc = "list"
    /\ calls' = Append(calls, Call("GET users", "", after))
    /\ LET pages == okta.listing[gid]
           i == PageIndex(pages, after)
       IN \E status \in (IF i = 0 THEN {400} ELSE Statuses) :
            IF status >= 300
            THEN Raise("RuntimeError") /\ UNCHANGED <<after, emails, okta_emails>>
            ELSE LET collected == emails \o PageEmails(pages[i].items)
                     next == NextAfter(pages[i].link)
                 IN /\ NoRaise
                    /\ IF next # <<>>
                       THEN /\ after' = next /\ emails' = collected
                            /\ pc' = "list" /\ okta_emails' = okta_emails
                       ELSE /\ okta_emails' = Sorted(Range(collected))
                            /\ after' = after /\ emails' = collected
                            /\ pc' = "map"
    /\ UNCHANGED <<cfgVars, dbVars, results, printed, gid,
                   desired_members, current_members, to_add, to_remove, pos,
                   logs, ghostVars, call_members>>

\* The for loop over okta_emails that builds desired_members.
MapIdentities ==
    /\ pc = "map"
    /\ LET r == MapLoop(okta_emails, idmap)
       IN desired_members' = r.desired /\ logs' = logs \o r.skipped
    /\ pc' = "ensure_role"
    /\ UNCHANGED <<cfgVars, dbVars, cur, results, printed, gid, after, emails,
                   okta_emails, current_members, to_add, to_remove, pos,
                   exc, excAt, calls, ghostVars, call_members>>

\* if ensure_roles: ...
EnsureRole ==
    /\ pc = "ensure_role"
    /\ IF ~ensure_roles
       THEN UNCHANGED <<dbVars, calls, logs>> /\ NoRaise /\ pc' = AfterEnsureRole
       ELSE IF ~Applies
       THEN /\ logs' = Append(logs, DryRunNotice("would ensure role", Mapping.crdb_role))
            /\ UNCHANGED <<dbVars, calls>> /\ NoRaise /\ pc' = AfterEnsureRole
       ELSE /\ calls' = Append(calls, Call("ensure_role_exists", Mapping.crdb_role, <<>>))
            /\ logs' = logs
            /\ \E ok \in BOOLEAN :
                 IF ok THEN ensure_role_exists(Mapping.crdb_role)
                            /\ NoRaise /\ pc' = AfterEnsureRole
                 ELSE StoreFail
    /\ pos' = 1
    /\ UNCHANGED <<cfgVars, results, printed, gid, after, emails, okta_emails,
                   desired_members, current_members, to_add, to_remove,
                   ghostVars, call_members>>

\* if ensure_users: for u in sorted(desired_members): one turn.
EnsureUser ==
    /\ pc = "ensure_users"
    /\ LET list == Sorted(desired_members)
           u == list[pos]
           goto == IF pos < Len(list) THEN "ensure_users" ELSE "observe"
       IN IF ~Applies
          THEN /\ logs' = Append(logs, DryRunNotice("would ensure user", u))
               /\ UNCHANGED <<dbVars, calls>> /\ NoRaise
               /\ pc' = goto /\ pos' = pos + 1
          ELSE /\ calls' = Append(calls, Call("ensure_user_exists", "", u))
               /\ logs' = logs
               /\ \E ok \in BOOLEAN :
                    IF ok THEN ensure_user_exists(u) /\ NoRaise
                               /\ pc' = goto /\ pos' = pos + 1
                    ELSE StoreFail /\ pos' = pos
    /\ UNCHANGED <<cfgVars, results, printed, gid, after, emails, okta_emails,
                   desired_members, current_members, to_add, to_remove,
                   ghostVars, call_members>>

\* current_members = crdb.current_members_of_role(crdb_role), then the diff.
Observe ==
    /\ pc = "observe"
    /\ calls' = Append(calls, Call("current_members_of_role", Mapping.crdb_role, <<>>))
    /\ \E ok \in BOOLEAN :
         IF ok
         THEN LET current == current_members_of_role(Mapping.crdb_role)
                  adds == ToAdd(desired_members, current)
                  removes == ToRemove(desired_members, current, enforce_removals)
              IN /\ current_members' = current
                 /\ to_add' = adds /\ to_remove' = removes
                 /\ UNCHANGED dbVars /\ NoRaise
                 /\ pc' = AfterDiff(adds, removes)
         ELSE StoreFail /\ UNCHANGED <<current_members, to_add, to_remove>>
    /\ pos' = 1
    /\ UNCHANGED <<cfgVars, results, printed, gid, after, emails, okta_emails,
                   desired_members, logs, ghostVars, call_members>>

\* for u in to_add: one turn.
Grant ==
    /\ pc = "grant"
    /\ LET u == to_add[pos]
           last == pos = Len(to_add)
           goto == IF ~last THEN "grant"
                   ELSE IF to_remove # <<>> THEN "revoke" ELSE "return"
           nextpos == IF last THEN 1 ELSE pos + 1
       IN IF ~Applies
          THEN /\ logs' = Append(logs, DryRunNotice("GRANT", u))
               /\ UNCHANGED <<dbVars, calls>> /\ NoRaise
               /\ pc' = goto /\ pos' = nextpos
          ELSE /\ calls' = Append(calls, Call("grant_role_to_member", Mapping.crdb_role, u))
               /\ logs' = logs
               /\ \E ok \in BOOLEAN :
                    IF ok THEN grant_role_to_member(Mapping.crdb_role, u) /\ NoRaise
                               /\ pc' = goto /\ pos' = nextpos
                    ELSE StoreFail /\ pos' = pos
    /\ UNCHANGED <<cfgVars, results, printed, gid, after, emails, okta_emails,
                   desired_members, current_members, to_add, to_remove,
                   ghostVars, call_members>>

\* for u in to_remove: one turn.
Revoke ==
    /\ pc = "revoke"
    /\ LET u == to_remove[pos]
           last == pos = Len(to_remove)
           goto == IF last THEN "return" ELSE "revoke"
           nextpos == IF last THEN 1 ELSE pos + 1
       IN IF ~Applies
          THEN /\ logs' = Append(logs, DryRunNotice("REVOKE", u))
               /\ UNCHANGED <<dbVars, calls>> /\ NoRaise
               /\ pc' = goto /\ pos' = nextpos
          ELSE /\ calls' = Append(calls, Call("revoke_role_from_member", Mapping.crdb_role, u))
               /\ logs' = logs
               /\ \E ok \in BOOLEAN :
                    IF ok THEN revoke_role_from_member(Mapping.crdb_role, u) /\ NoRaise
                               /\ pc' = goto /\ pos' = nextpos
                    ELSE StoreFail /\ pos' = pos
    /\ UNCHANGED <<cfgVars, results, printed, gid, after, emails, okta_emails,
                   desired_members, current_members, to_add, to_remove,
                   ghostVars, call_members>>

\* return {...}, results.append(...), and on to the next mapping.
Return ==
    /\ pc = "return"
    /\ results' = Append(results,
          [okta_group |-> Mapping.okta_group, crdb_role |-> Mapping.crdb_role,
           desired_count |-> DesiredCount,
           current_count |-> CurrentCount,
           granted |-> to_add, revoked |-> to_remove])
    /\ cur' = cur + 1 /\ pc' = "main"
    /\ gid' = "none" /\ after' = <<>> /\ emails' = <<>> /\ okta_emails' = <<>>
    /\ desired_members' = {} /\ current_members' = {}
    /\ to_add' = <<>> /\ to_remove' = <<>> /\ pos' = 1
    /\ UNCHANGED <<cfgVars, dbVars, printed, exc, excAt, calls, logs,
                   ghostVars, call_members>>

\* print(json.dumps({"results": results})) after the loop.
PrintReport ==
    /\ pc = "main" /\ LoopDone
    /\ printed' = printed + 1 /\ pc' = "done"
    /\ UNCHANGED <<cfgVars, dbVars, cur, results, localVars, exc, excAt,
                   calls, logs, ghostVars, call_members>>

Next ==
    \/ Preflight
    \/ StartMapping
    \/ FindGroupSw
    \/ FindGroupQ
    \/ ListPage
    \/ MapIdentities
    \/ EnsureRole
    \/ EnsureUser
    \/ Observe
    \/ Grant
    \/ Revoke
    \/ Return
    \/ PrintReport

Spec == Init /\ [][Next]_vars


\* ---------------------------------------------------------------- claims
\* Positions of sync_one_mapping after list_group_user_emails returned,
\* after the mapping loop, and after the diff.
PostList == {"map", "ensure_role", "ensure_users", "observe", "grant", "revoke", "return"}
PostMap  == PostList \ {"map"}
PostDiff == {"grant", "revoke", "return"}

MutatingOps == {"ensure_role_exists", "ensure_user_exists",
                "grant_role_to_member", "revoke_role_from_member"}

CallsOf(j, ops) == {i \in DOMAIN calls : calls[i].m = j /\ calls[i].op \in ops}

\* The calls that took effect: a StoreError is raised by the last call
\* issued, which changed nothing.
Applied == IF exc = "StoreError" THEN SubSeq(calls, 1, Len(calls) - 1) ELSE calls

\* Strictly ascending in str order.
IsAscending(s) == \A i, j \in DOMAIN s : i < j => StrLess(s[i], s[j])

\* A listing in the provider's documented form: two or more pages, every
\* page but the last with '<url?after=CURSOR>; rel="next"'.
DocumentedListing(pages) ==
    /\ Len(pages) >= 2
    /\ \A i \in 1..(Len(pages) - 1) : pages[i].link = LinkNext(i + 1)
    /\ pages[Len(pages)].link \in {LinkNone, LinkSelf}

AllPageEmails(pages) == UNION {Range(PageEmails(pages[i].items)) : i \in DOMAIN pages}

\* C1: for a group whose listing spans N >= 2 pages in the documented
\* Link form, list_group_user_emails issues one request per page and
\* returns the lower-cased emails of all N pages.
C1_AllPagesListed ==
    (pc \in PostList /\ DocumentedListing(okta.listing[gid]))
        => /\ Range(okta_emails) = AllPageEmails(okta.listing[gid])
           /\ Cardinality(CallsOf(cur, {"GET users"})) = Len(okta.listing[gid])

\* C2: idempotence.  When a mapping is run again right after it
\* completed, not in dry-run, the second run grants and revokes nothing
\* and reports granted = [] and revoked = [].
C2_Idempotent ==
    ~dry_run =>
        \A j \in 2..Len(mappings) :
            (j <= cur /\ mappings[j] = mappings[j - 1])
                => /\ CallsOf(j, {"grant_role_to_member", "revoke_role_from_member"}) = {}
                   /\ j = cur => (to_add = <<>> /\ to_remove = <<>>)
                   /\ j <= Len(results) =>
                        (results[j].granted = <<>> /\ results[j].revoked = <<>>)

C2_Witness ==
    /\ ~dry_run /\ enforce_removals /\ Len(results) = 2
    /\ mappings[1] = mappings[2]
    /\ results[1].granted # <<>> /\ results[1].revoked # <<>>

\* C3: under dry-run no mutating database call is ever issued and the
\* database's roles, users and memberships stay what they were at the start
\* of the run, in every state, failed runs included.
C3_DryRunNeverMutates ==
    dry_run =>
        /\ roles = roles0 /\ users = users0 /\ members = members0
        /\ \A i \in DOMAIN calls : calls[i].op \notin MutatingOps

C3_Witness ==
    /\ dry_run /\ ensure_roles /\ ensure_users /\ enforce_removals
    /\ pc = "failed" /\ excAt = 2
    /\ results[1].granted # <<>> /\ results[1].revoked # <<>>

\* C4: with enforce_removals false nothing is revoked: the revoked lists
\* are empty, revoke_role_from_member is never called, and whoever held a
\* role before the run still holds it.
C4_AdditiveOnly ==
    ~enforce_removals =>
        /\ to_remove = <<>>
        /\ \A j \in DOMAIN results : results[j].revoked = <<>>
        /\ \A i \in DOMAIN calls : calls[i].op # "revoke_role_from_member"
        /\ \A r \in RoleNames : members0[r] \subseteq members[r]

C4_Witness ==
    /\ ~enforce_removals /\ ~dry_run /\ pc = "return"
    /\ current_members \ desired_members # {}
    /\ to_add # <<>>

\* C5: after the diff, to_add lists exactly desired - current and (with
\* enforce_removals) to_remove exactly current - desired, each ascending;
\* the two lists are disjoint, nothing granted is already a member and
\* nothing revoked is desired.
C5_DiffCorrect ==
    pc \in PostDiff =>
        /\ IsAscending(to_add) /\ IsAscending(to_remove)
        /\ Range(to_add) = desired_members \ current_members
        /\ enforce_removals => Range(to_remove) = current_members \ desired_members
        /\ Range(to_add) \cap Range(to_remove) = {}
        /\ Range(to_add) \cap current_members = {}
        /\ Range(to_remove) \cap desired_members = {}

C5_Witness ==
    /\ pc = "return" /\ enforce_removals
    /\ Len(to_add) >= 2 /\ to_remove # <<>>
    /\ current_members \cap desired_members # {}

\* C6: the only error of the mapping step that is recovered (logged as a
\* skipped identity) is the pattern mismatch; any other error there ends
\* the run.
C6_OnlyMismatchRecovered ==
    \A i \in DOMAIN logs :
        logs[i].what = "skipping" => logs[i].err = "ValueError"

\* C7: an identity that does not match the pattern is skipped and nothing
\* else: desired_members is exactly what the matching identities derive,
\* the mismatch raises nothing (the only errors that end a run come from a
\* provider or database call), and the mapping goes on.
C7_MismatchNonFatal ==
    /\ pc \in PostMap =>
          desired_members =
              {TryDerive(e, idmap).user :
                 e \in {x \in Range(okta_emails) : TryDerive(x, idmap).kind = "ok"}}
    /\ exc # "none" =>
          /\ exc \in {"RuntimeError", "KeyError", "StoreError"}
          /\ exc = "KeyError" => calls[Len(calls)].op = "GET groups q"
          /\ exc = "RuntimeError" =>
                calls[Len(calls)].op \in {"GET groups search", "GET groups q", "GET users"}
          /\ exc = "StoreError" =>
                calls[Len(calls)].op \in MutatingOps \cup {"current_members_of_role"}

C7_Witness ==
    /\ pc = "return" /\ cur = 1 /\ ~dry_run
    /\ \E e \in Range(okta_emails) : TryDerive(e, idmap).kind = "ValueError"
    /\ Cardinality(desired_members) >= 2
    /\ to_add # <<>>

\* C8: once a mapping ends in a fatal error the run is over: it is in its
\* failure state at that mapping, no call was issued for a later mapping,
\* no later outcome was collected and no report was printed.
C8_WholeRunAbort ==
    exc # "none" =>
        /\ pc = "failed" /\ cur = excAt
        /\ \A i \in DOMAIN calls : calls[i].m <= excAt
        /\ Len(results) = excAt - 1
        /\ printed = 0

C8_Witness ==
    /\ pc = "failed" /\ exc = "KeyError" /\ excAt = 1 /\ Len(mappings) >= 2
    /\ mappings[2].okta_group = Eng

\* The last call applied to (role, member) among grants and revokes, "none"
\* when there is none.
LastApplied(role, member) ==
    LET hits == {i \in DOMAIN Applied :
                    /\ Applied[i].op \in {"grant_role_to_member", "revoke_role_from_member"}
                    /\ Applied[i].role = role /\ Applied[i].who = member}
    IN IF hits = {} THEN "none"
       ELSE Applied[CHOOSE i \in hits : \A j \in hits : j <= i].op

Touched == {calls[i].who : i \in DOMAIN calls}

\* C9: nothing the run applied is undone, a fatal error included: for
\* every role and principal the membership is what the last applied grant
\* or revoke made it, and what it was before the run where none was applied.
C9_NoRollback ==
    \A r \in RoleNames : \A u \in Touched \cup MemberPool :
        LET op == LastApplied(r, u)
        IN /\ op = "grant_role_to_member" => u \in members[r]
           /\ op = "revoke_role_from_member" => u \notin members[r]
           /\ op = "none" => (u \in members[r] <=> u \in members0[r])

C9_Witness ==
    /\ pc = "failed" /\ exc = "StoreError" /\ ~dry_run /\ excAt = 2
    /\ results[1].granted # <<>> /\ results[1].revoked # <<>>
    /\ Cardinality(CallsOf(2, {"grant_role_to_member"})) >= 2
    /\ calls[Len(calls)].op = "grant_role_to_member"

\* The group id find_group_id_by_name returns for a name, "none" when it
\* raises.
ResolvedGid(name) ==
    LET sw == FirstExact(SearchPage("sw", name), name)
    IN IF sw # "none" THEN sw ELSE FirstExact(SearchPage("q", name), name)

\* The emails list_group_user_emails collects from page i on.
RECURSIVE WalkPages(_, _)
WalkPages(pages, i) ==
    LET next == NextAfter(pages[i].link)
        j == PageIndex(pages, next)
    IN PageEmails(pages[i].items)
       \o (IF next # <<>> /\ j # 0 THEN WalkPages(pages, j) ELSE <<>>)

\* The outcome of one mapping as a function of the provider, the rule, the
\* options other than dry_run, and the role membership at the start of the
\* call: dry_run is not an argument.
Plan(mapping, membersAtCall) ==
    LET listed == Sorted(Range(WalkPages(okta.listing[ResolvedGid(mapping.okta_group)], 1)))
        D == MapLoop(listed, idmap).desired
        C == membersAtCall[mapping.crdb_role]
    IN [okta_group |-> mapping.okta_group, crdb_role |-> mapping.crdb_role,
        desired_count |-> Cardinality(D), current_count |-> Cardinality(C),
        granted |-> Sorted(D \ C),
        revoked |-> IF enforce_removals THEN Sorted(C \ D) ELSE <<>>]

\* C10: the outcome a call returns is the same function of the state the
\* call started from whether dry_run is set or not, so a dry-run and a
\* completed non-dry-run from the same state return the same granted,
\* revoked, desired_count and current_count.
C10_DryRunTruthfulPlan ==
    \A j \in DOMAIN results : results[j] = Plan(mappings[j], call_members[j])

C10_Witness ==
    /\ dry_run /\ ensure_roles /\ ensure_users /\ enforce_removals
    /\ Len(results) >= 1
    /\ results[1].crdb_role \notin roles0
    /\ results[1].granted # <<>>
    /\ pc = "done"


\* The operations of mapping j, in the order issued.
OpsOf(j) ==
    LET OfJ(c) == c.m = j IN SelectSeq(calls, OfJ)

\* The step of sync_one_mapping an operation belongs to.
StepOf(op) ==
    CASE op \in {"GET groups search", "GET groups q"} -> 1
      [] op = "GET users" -> 2
      [] op = "ensure_role_exists" -> 4
      [] op = "ensure_user_exists" -> 5
      [] op = "current_members_of_role" -> 6
      [] op = "grant_role_to_member" -> 7
      [] op = "revoke_role_from_member" -> 8

DbOps == MutatingOps \cup {"current_members_of_role"}

\* C11: the operations of one mapping are issued in step order (resolve,
\* list, ensure role, ensure users, observe, grants, revokes) with no step
\* revisited; the mapping loop runs between the listing and the first
\* database operation; the membership is read once, before any grant or
\* revoke; and with ensure_users each principal is ensured before it is
\* granted.
C11_StrictStepOrder ==
    /\ \A j \in 1..Len(mappings) :
          LET ops == OpsOf(j)
          IN /\ \A a, b \in DOMAIN ops :
                   a < b => StepOf(ops[a].op) <= StepOf(ops[b].op)
             /\ Cardinality(CallsOf(j, {"current_members_of_role"})) <= 1
             /\ \A b \in DOMAIN ops :
                   ops[b].op \in {"grant_role_to_member", "revoke_role_from_member"}
                     => \E a \in 1..(b - 1) : ops[a].op = "current_members_of_role"
             /\ ensure_users =>
                   \A b \in DOMAIN ops :
                      ops[b].op = "grant_role_to_member"
                        => \E a \in 1..(b - 1) :
                              /\ ops[a].op = "ensure_user_exists"
                              /\ ops[a].who = ops[b].who
    /\ pc \in {"find_sw", "find_q", "list", "map"} => CallsOf(cur, DbOps) = {}
    /\ pc \in PostMap => CallsOf(cur, {"GET users"}) # {}

C11_Witness ==
    /\ pc = "return" /\ ~dry_run /\ ensure_users /\ ensure_roles /\ enforce_removals
    /\ Len(to_add) >= 2 /\ to_remove # <<>>
    /\ Cardinality(CallsOf(cur, {"ensure_user_exists"})) >= 2

\* C12: when a mapping completes, not in dry-run, the role's members are
\* the observed members plus the desired ones without enforce_removals,
\* and exactly the desired ones with it.
C12_Converges ==
    (pc = "return" /\ ~dry_run) =>
        members[Mapping.crdb_role] =
            IF enforce_removals THEN desired_members
            ELSE current_members \cup desired_members

C12_Witness ==
    /\ pc = "return" /\ ~dry_run /\ ~enforce_removals
    /\ Len(to_add) >= 2
    /\ current_members \ desired_members # {}
    /\ to_remove = <<>>

\* The groups of the directory with exactly this name.
GroupsNamed(name) == {i \in DOMAIN okta.groups : okta.groups[i].name = name}

\* C13: find_group_id_by_name returns only the id of a group whose name
\* is exactly the requested one; the free-text query follows a starts-with
\* search whose page had no exact match; each search is requested at most
\* once per mapping; and when neither page has an exact match the mapping
\* fails (with the group-not-found error unless the second request failed).
C13_GroupResolution ==
    /\ gid # "none" =>
          \E i \in GroupsNamed(Mapping.okta_group) : okta.groups[i].id = gid
    /\ \A j \in 1..Len(mappings) :
          /\ Cardinality(CallsOf(j, {"GET groups search"})) <= 1
          /\ Cardinality(CallsOf(j, {"GET groups q"})) <= 1
          /\ CallsOf(j, {"GET groups q"}) # {} =>
                FirstExact(SearchPage("sw", mappings[j].okta_group),
                           mappings[j].okta_group) = "none"
    /\ \A i \in DOMAIN calls :
          calls[i].op = "GET groups q" =>
             /\ i > 1
             /\ calls[i - 1].op = "GET groups search"
             /\ calls[i - 1].m = calls[i].m
    /\ (/\ pc # "find_q" /\ CallsOf(cur, {"GET groups q"}) # {}
        /\ FirstExact(SearchPage("q", Mapping.okta_group), Mapping.okta_group) = "none")
          => pc = "failed" /\ exc \in {"KeyError", "RuntimeError"}
    /\ exc = "KeyError" =>
          /\ FirstExact(SearchPage("sw", Mapping.okta_group), Mapping.okta_group) = "none"
          /\ FirstExact(SearchPage("q", Mapping.okta_group), Mapping.okta_group) = "none"

\* A prefix-only group is on the first page and passed over, and the
\* exact one is found by the second request.
C13_Witness ==
    /\ pc = "list" /\ cur = 1
    /\ SearchPage("sw", Mapping.okta_group) # <<>>
    /\ CallsOf(cur, {"GET groups q"}) # {}
    /\ gid = "g2"

\* The identities of the listing that derive this principal.
IdentitiesOf(u) ==
    {e \in Range(okta_emails) :
        TryDerive(e, idmap).kind = "ok" /\ TryDerive(e, idmap).user = u}

\* C14: identities that derive the same principal merge: the principal
\* is in desired_members once and counted once, it is ensured at most once
\* and granted at most once in the mapping, and the only errors that end
\* the mapping come from a provider or database call.
C14_CollisionMerge ==
    /\ pc \in PostMap =>
          /\ \A u \in desired_members : IdentitiesOf(u) # {}
          /\ DesiredCount = Cardinality({u \in desired_members : IdentitiesOf(u) # {}})
    /\ \A j \in DOMAIN results :
          results[j].desired_count =
              Cardinality(MapLoop(Sorted(Range(WalkPages(
                  okta.listing[ResolvedGid(mappings[j].okta_group)], 1))), idmap).desired)
    /\ \A j \in 1..Len(mappings) :
          \A a, b \in CallsOf(j, {"grant_role_to_member", "ensure_user_exists"}) :
              (calls[a].op = calls[b].op /\ calls[a].who = calls[b].who) => a = b
    /\ exc = "KeyError" => calls[Len(calls)].op = "GET groups q"

C14_Witness ==
    /\ pc = "return" /\ ~dry_run /\ ensure_users
    /\ \E u \in Range(to_add) : Cardinality(IdentitiesOf(u)) >= 2

\* C15: mappings are taken one at a time in configuration order; the
\* i-th outcome is the i-th mapping's; the report is printed once, after
\* the last mapping, with one outcome per mapping.
C15_ReportOrder ==
    /\ \A i, j \in DOMAIN calls : i < j => calls[i].m <= calls[j].m
    /\ \A i \in DOMAIN calls : calls[i].m <= cur
    /\ Len(results) \in {cur - 1} /\ Len(results) <= Len(mappings)
    /\ \A j \in DOMAIN results :
          /\ results[j].okta_group = mappings[j].okta_group
          /\ results[j].crdb_role = mappings[j].crdb_role
    /\ printed = (IF pc = "done" THEN 1 ELSE 0)
    /\ pc = "done" => Len(results) = Len(mappings)

C15_Witness ==
    /\ pc = "done" /\ printed = 1 /\ Len(mappings) >= 2
    /\ mappings[1] # mappings[2]

\* C16 as stated: the token is the environment variable whenever it is
\* set, else the config's; without a token, or with a placeholder, the run
\* ends before any request or database operation.
C16_EnvWhenSet ==
    LET t == IF env_token.set THEN env_token ELSE cfg_token
    IN pc # "preflight" =>
          IF ~t.set \/ IsPrefix(<<"$", "{">>, t.val)
          THEN pc = "died" /\ calls = <<>>
          ELSE pc # "died" /\ token = t.val

\* C16 as amended: the token is the environment variable when it is set
\* to a non-empty value, else the config's; when the resolved token is
\* absent, empty or a placeholder the run ends before any request or
\* database operation.
C16_CredentialPreflight ==
    LET t == IF env_token.set /\ env_token.val # <<>> THEN env_token ELSE cfg_token
    IN pc # "preflight" =>
          IF ~t.set \/ t.val = <<>> \/ IsPrefix(<<"$", "{">>, t.val)
          THEN /\ pc = "died" /\ calls = <<>> /\ token = <<>>
               /\ roles = roles0 /\ users = users0 /\ members = members0
          ELSE pc # "died" /\ token = t.val

C16_Witness ==
    /\ pc = "list" /\ env_token = Val(<<>>) /\ cfg_token = Val(TokCfg)
    /\ token = TokCfg

\* C17: a field the identity_map section omits takes its default,
\* "^(.*)$" for pattern and "\1" for replacement, each on its own.
C17_FieldDefaults ==
    pc \notin {"preflight", "died"} =>
        LET c == IF cfg_identity_map = <<>> THEN <<>> ELSE cfg_identity_map[1]
        IN idmap = [pattern |-> IF "pattern" \in DOMAIN c THEN c.pattern ELSE PatAll,
                    replacement |-> IF "replacement" \in DOMAIN c THEN c.replacement
                                    ELSE ReplGroup1]

\* The arguments of the calls of these operations, or of the dry-run
\* notices of this kind, in order.
RECURSIVE ArgsOf(_, _)
ArgsOf(list, kinds) ==
    IF list = <<>> THEN <<>>
    ELSE (IF (IF "op" \in DOMAIN Head(list) THEN Head(list).op ELSE Head(list).what) \in kinds
          THEN <<IF "op" \in DOMAIN Head(list) THEN Head(list).who ELSE Head(list).arg>>
          ELSE <<>>)
         \o ArgsOf(Tail(list), kinds)

RECURSIVE Flatten(_, _)
Flatten(rs, field) ==
    IF rs = <<>> THEN <<>>
    ELSE (IF field = "granted" THEN Head(rs).granted ELSE Head(rs).revoked)
         \o Flatten(Tail(rs), field)

\* C18: desired_count is the size of desired_members, current_count the
\* size of the membership the call started from (no grant or revoke of the
\* call precedes the read), and granted and revoked are the principals the
\* grants and revokes were issued for, or announced for under dry-run.
C18_OutcomeCounts ==
    /\ \A j \in DOMAIN results :
          /\ results[j].current_count =
                Cardinality(call_members[j][mappings[j].crdb_role])
          /\ results[j].desired_count <= Len(results[j].granted)
                                         + results[j].current_count
          /\ results[j].desired_count >= Len(results[j].granted)
    /\ pc = "return" =>
          /\ DesiredCount = Cardinality(desired_members)
          /\ CurrentCount = Cardinality(call_members[cur][Mapping.crdb_role])
    /\ pc \in {"main", "done"} =>
          IF dry_run
          THEN /\ Flatten(results, "granted") = ArgsOf(logs, {"GRANT"})
               /\ Flatten(results, "revoked") = ArgsOf(logs, {"REVOKE"})
          ELSE /\ Flatten(results, "granted") = ArgsOf(calls, {"grant_role_to_member"})
               /\ Flatten(results, "revoked") = ArgsOf(calls, {"revoke_role_from_member"})

C18_Witness ==
    /\ pc = "done" /\ ~dry_run /\ Len(results) = 2
    /\ results[1].granted # <<>> /\ results[1].revoked # <<>>
    /\ results[1].current_count # Cardinality(members[results[1].crdb_role])

\* C19: with enforce_removals, not in dry-run, a member of the role that
\* no listed identity derives is revoked when the mapping completes; when
\* every listed identity was skipped, desired_members is empty and every
\* member is revoked.
C19_ExcludedAreRevoked ==
    (pc = "return" /\ enforce_removals /\ ~dry_run) =>
        /\ \A u \in current_members :
              IdentitiesOf(u) = {} =>
                 /\ u \in Range(to_remove)
                 /\ u \notin members[Mapping.crdb_role]
                 /\ \E i \in CallsOf(cur, {"revoke_role_from_member"}) : calls[i].who = u
        /\ (\A e \in Range(okta_emails) : TryDerive(e, idmap).kind # "ok") =>
              /\ desired_members = {}
              /\ Range(to_remove) = current_members
              /\ members[Mapping.crdb_role] = {}

C19_Witness ==
    /\ pc = "return" /\ enforce_removals /\ ~dry_run
    /\ okta_emails # <<>>
    /\ \A e \in Range(okta_emails) : TryDerive(e, idmap).kind # "ok"
    /\ Cardinality(current_members) >= 2

\* C20: when the group search or the member listing of a mapping fails,
\* no database operation was issued for that mapping, and roles, users and
\* memberships are what the earlier mappings left.
C20_DiscoveryFailureFrame ==
    exc \in {"KeyError", "RuntimeError"} =>
        /\ CallsOf(excAt, DbOps) = {}
        /\ members = call_members[excAt]
        /\ roles = roles0 \cup {calls[i].role :
                                    i \in {n \in DOMAIN calls :
                                              /\ calls[n].op = "ensure_role_exists"
                                              /\ calls[n].m < excAt}}
        /\ users = users0 \cup {calls[i].who :
                                    i \in {n \in DOMAIN calls :
                                              /\ calls[n].op = "ensure_user_exists"
                                              /\ calls[n].m < excAt}}

C20_Witness ==
    /\ exc = "RuntimeError" /\ excAt = 2 /\ ~dry_run
    /\ calls[Len(calls)].op = "GET users"
    /\ results[1].granted # <<>>
    /\ members # members0

====
